---- MODULE Spec2Model ----
(***************************************************************************)
(* Quiz analytics of backend/app1.py: the /api/quiz_performance handler    *)
(* (scoring one attempt, folding it into the material's quiz_stats blob,   *)
(* appending the attempt history, inserting a quiz_performance row), the   *)
(* /api/revision_quiz handler (selecting question indices to revise) and   *)
(* the three /api/dashboard handlers (aggregating quiz_performance rows).  *)
(*                                                                         *)
(* The store is the Supabase row of one material (columns quiz and         *)
(* quiz_stats) and the quiz_performance table.  A handler talks to the     *)
(* store at separate calls (select, update, insert), so in Spec a request  *)
(* is split at those calls and two requests may interleave.  The other     *)
(* specifications start from what requests served one at a time leave in   *)
(* the store: SpecRevision asks for revision indices, SpecRequest serves   *)
(* one request drawn whole, SpecSwap serves two requests in both orders,   *)
(* SpecDashboard asks the dashboards about the rows of two materials.      *)
(*                                                                         *)
(* Python indices are 0-based; sequences here are 1-based, so quiz[i] of   *)
(* the source is quiz[i + 1] here.  A Python dict is a sequence of entries *)
(* in insertion order.  A float ratio c / t is kept as the pair <<c, t>>.  *)
(* The operators of the handlers take what the handler loaded as           *)
(* parameters, so the definitions that replay requests do not read the     *)
(* state.                                                                  *)
(***************************************************************************)
EXTENDS Integers, Sequences, FiniteSets, TLC

\* ---------------------------------------------------------------- bounds
\* number of questions of the material's quiz
QuizLen == 2
\* number of /api/quiz_performance requests that are started
MaxRequests == 2
\* most attempts per question in the mastery states revision_quiz is given
MaxAttemptsPerQuestion == 4
\* longest question_indices list a request carries
MaxRawLen == 2
\* prior attempts per question of the material one drawn request is served on
MaxPriorAttempts == 1
\* longest question_indices list of a request that is drawn whole
MaxLongRawLen == 3
\* rows of quiz_performance the dashboards are asked about
MaxRows == 3
\* inserts that fall on one calendar day
AttemptsPerDay == 2

\* ------------------------------------------------------------- constants
\* limit = int(data.get("limit", 10))
DefaultLimit == 10

None == "None"
Options == {"A", "B"}
Requests == {1, 2}

\* a generated quiz of n questions: question i has answer "A" when i is
\* even, else "B"
Questions(n) == [i \in 1..n |-> [answer |-> IF i % 2 = 1 THEN "A" ELSE "B"]]
\* the quiz column of a material: study_material stores the questions the
\* generator returned, or no question at all when its reply had none
Quizzes == {Questions(0), Questions(QuizLen)}

\* ----------------------------------------------------------- conversions
Digits == <<"0", "1", "2", "3", "4", "5", "6", "7", "8", "9">>
\* str(idx) for a one-digit index
Str(idx) == Digits[idx + 1]
\* int(idx_str) for a one-digit key
Int_(idx_str) == (CHOOSE d \in 1..10 : Digits[d] = idx_str) - 1

\* (data.get("mode") or "normal").lower()
LowerMode(m) ==
    CASE m = None -> "normal"
      [] m = "" -> "normal"
      [] m = "Revision" -> "revision"
      [] m = "NORMAL" -> "normal"
      [] OTHER -> m

\* ------------------------------------------------------- ordered mapping
\* dict.get(key, default) on a sequence of entries [key, ...]
HasKey(d, k) == \E j \in 1..Len(d) : d[j].key = k
Lookup(d, k) == d[CHOOSE j \in 1..Len(d) : d[j].key = k]
ZeroStats(k) == [key |-> k, correct |-> 0, skipped |-> 0, attempts |-> 0]
GetStats(d, k) == IF HasKey(d, k) THEN Lookup(d, k) ELSE ZeroStats(k)
\* d[key] = value: an existing key keeps its position, a new key goes last
SetItem(d, e) ==
    IF HasKey(d, e.key)
    THEN [j \in 1..Len(d) |-> IF d[j].key = e.key THEN e ELSE d[j]]
    ELSE Append(d, e)

\* ------------------------------------------------------ quiz_performance
\* the question_indices a request may carry: absent, a non-list, or a list
RawValues == (0 - 1)..QuizLen
RawLists == UNION {[1..k -> RawValues] : k \in 0..MaxRawLen}
RawIndices ==
    {[kind |-> "absent", items |-> <<>>], [kind |-> "scalar", items |-> <<>>]}
        \cup {[kind |-> "list", items |-> l] : l \in RawLists}
ModeInputs == {None, "normal", "Revision", "exam"}
AnswerKeys == {Str(i) : i \in 0..(QuizLen - 1)}
AnswerInputs == [AnswerKeys -> Options \cup {None}]

\* for r in raw_indices: idx = int(r); if 0 <= idx < n_quiz: append
InRange(raw, n_quiz) == SelectSeq(raw, LAMBDA idx : 0 <= idx /\ idx < n_quiz)
\* variant: of equal indices the last one is kept
RemoveDuplicates_KeepLast(s) ==
    LET last(j) == \A k \in (j + 1)..Len(s) : s[k] # s[j]
        keep == {j \in 1..Len(s) : last(j)}
        F[j \in 0..Len(s)] ==
            IF j = 0 THEN <<>>
            ELSE IF j \in keep THEN Append(F[j - 1], s[j]) ELSE F[j - 1]
    IN F[Len(s)]
\* [x for x in attempt_indices if not (x in seen or seen.add(x))]
RemoveDuplicates(s) ==
    LET first(j) == \A k \in 1..(j - 1) : s[k] # s[j]
        keep == {j \in 1..Len(s) : first(j)}
        F[j \in 0..Len(s)] ==
            IF j = 0 THEN <<>>
            ELSE IF j \in keep THEN Append(F[j - 1], s[j]) ELSE F[j - 1]
    IN F[Len(s)]
\* list(range(n_quiz))
Range(n) == [j \in 1..n |-> j - 1]
\* variant: a list with no valid index falls back to the whole quiz
AttemptIndices_FallBackToWhole(mode, raw_indices, n_quiz) ==
    IF mode = "revision" /\ raw_indices.kind = "list"
       /\ Len(InRange(raw_indices.items, n_quiz)) > 0
    THEN RemoveDuplicates(InRange(raw_indices.items, n_quiz))
    ELSE Range(n_quiz)
AttemptIndices(mode, raw_indices, n_quiz) ==
    IF mode = "revision" /\ raw_indices.kind = "list" /\ Len(raw_indices.items) > 0
    THEN RemoveDuplicates(InRange(raw_indices.items, n_quiz))
    ELSE Range(n_quiz)

\* is_correct of one question
IsCorrect(selected, correct_answer) ==
    IF selected = None THEN FALSE ELSE selected = correct_answer
\* variant: a wrong answer is also counted as skipped
UpdateQStats_WrongAsSkipped(qstats, selected, is_correct) ==
    [key |-> qstats.key,
     attempts |-> qstats.attempts + 1,
     skipped |-> IF ~is_correct THEN qstats.skipped + 1 ELSE qstats.skipped,
     correct |-> IF selected # None /\ is_correct
                 THEN qstats.correct + 1 ELSE qstats.correct]
\* variant: a skipped question is not counted as an attempt
UpdateQStats_SkipNotAttempted(qstats, selected, is_correct) ==
    [key |-> qstats.key,
     attempts |-> IF selected = None THEN qstats.attempts ELSE qstats.attempts + 1,
     skipped |-> IF selected = None THEN qstats.skipped + 1 ELSE qstats.skipped,
     correct |-> IF selected # None /\ is_correct
                 THEN qstats.correct + 1 ELSE qstats.correct]
\* variant: a correct answer clears the skips counted so far
UpdateQStats_CorrectClearsSkipped(qstats, selected, is_correct) ==
    [key |-> qstats.key,
     attempts |-> qstats.attempts + 1,
     skipped |-> IF selected = None THEN qstats.skipped + 1
                 ELSE IF is_correct THEN 0 ELSE qstats.skipped,
     correct |-> IF selected # None /\ is_correct
                 THEN qstats.correct + 1 ELSE qstats.correct]
\* qstats["attempts"] += 1; skipped or correct += 1
UpdateQStats(qstats, selected, is_correct) ==
    [key |-> qstats.key,
     attempts |-> qstats.attempts + 1,
     skipped |-> IF selected = None THEN qstats.skipped + 1 ELSE qstats.skipped,
     correct |-> IF selected # None /\ is_correct
                 THEN qstats.correct + 1 ELSE qstats.correct]
\* variant: every answer that is not correct counts as wrong, a skip too
Count_SkipAlsoWrong(acc, selected, is_correct) ==
    [correct |-> IF selected # None /\ is_correct THEN acc.correct + 1 ELSE acc.correct,
     wrong |-> IF ~is_correct THEN acc.wrong + 1 ELSE acc.wrong,
     skipped |-> IF selected = None THEN acc.skipped + 1 ELSE acc.skipped]
\* correct / wrong / skipped counters of the attempt
Count(acc, selected, is_correct) ==
    [correct |-> IF selected # None /\ is_correct THEN acc.correct + 1 ELSE acc.correct,
     wrong |-> IF selected # None /\ ~is_correct THEN acc.wrong + 1 ELSE acc.wrong,
     skipped |-> IF selected = None THEN acc.skipped + 1 ELSE acc.skipped]
\* one pass of "for idx in attempt_indices"
EvaluateStep(quiz, idx, answers, acc) ==
    LET idx_str == Str(idx)
        selected == answers[idx_str]
        correct_answer == quiz[idx + 1].answer
        is_correct == IsCorrect(selected, correct_answer)
        qstats == GetStats(acc.per_question, idx_str)
        cnt == Count(acc, selected, is_correct)
    IN [correct |-> cnt.correct, wrong |-> cnt.wrong, skipped |-> cnt.skipped,
        per_question |->
            SetItem(acc.per_question, UpdateQStats(qstats, selected, is_correct)),
        details |-> Append(acc.details,
            [index |-> idx, correct_answer |-> correct_answer,
             selected_answer |-> selected, is_correct |-> is_correct])]
RECURSIVE EvaluateLoop(_, _, _, _)
EvaluateLoop(quiz, attempt_indices, answers, acc) ==
    IF attempt_indices = <<>> THEN acc
    ELSE EvaluateLoop(quiz, Tail(attempt_indices), answers,
                      EvaluateStep(quiz, Head(attempt_indices), answers, acc))
Evaluate(quiz, quiz_stats, attempt_indices, answers) ==
    EvaluateLoop(quiz, attempt_indices, answers,
        [correct |-> 0, wrong |-> 0, skipped |-> 0,
         per_question |-> quiz_stats.per_question, details |-> <<>>])

\* variant: attempt_no = len(history)
AttemptNo_ZeroBased(history) == Len(history)
\* attempt_no = len(history) + 1
AttemptNo(history) == Len(history) + 1
\* variant: total_questions counts the answered questions only
Item_AnsweredAsTotal(mode, ev, total_questions, attempt_no) ==
    [mode |-> mode, score |-> ev.correct, correct |-> ev.correct,
     wrong |-> ev.wrong, skipped |-> ev.skipped,
     attempted |-> ev.correct + ev.wrong,
     total_questions |-> ev.correct + ev.wrong,
     accuracy |-> <<ev.correct, total_questions>>,
     attempt_no |-> attempt_no]
\* the history item of the attempt
Item(mode, ev, total_questions, attempt_no) ==
    [mode |-> mode, score |-> ev.correct, correct |-> ev.correct,
     wrong |-> ev.wrong, skipped |-> ev.skipped,
     attempted |-> ev.correct + ev.wrong,
     total_questions |-> total_questions,
     accuracy |-> <<ev.correct, total_questions>>,
     attempt_no |-> attempt_no]
\* variant: every attempted question is listed, solved or not
Unsolved_AnyAttempted(per_question, idx) ==
    LET stats == GetStats(per_question, Str(idx))
    IN stats.attempts > 0
\* the test of the rebuild of last_unsolved
Unsolved(per_question, idx) ==
    LET stats == GetStats(per_question, Str(idx))
    IN stats.attempts > 0 /\ stats.correct = 0
\* for idx, q in enumerate(quiz): ... last_unsolved.append(...)
LastUnsolved(quiz, per_question) ==
    LET F[j \in 0..Len(quiz)] ==
            IF j = 0 THEN <<>>
            ELSE IF Unsolved(per_question, j - 1)
                 THEN Append(F[j - 1],
                        [index |-> j - 1, correct_answer |-> quiz[j].answer])
                 ELSE F[j - 1]
    IN F[Len(quiz)]
\* the quiz_stats the handler writes back
NewQuizStats(quiz, quiz_stats, ev, item) ==
    [per_question |-> ev.per_question,
     history |-> Append(quiz_stats.history, item),
     last_unsolved |-> LastUnsolved(quiz, ev.per_question)]
\* the row inserted into quiz_performance
QpRow(item, details) ==
    [correct_answers |-> item.correct, wrong_answers |-> item.wrong,
     skipped |-> item.skipped, total_questions |-> item.total_questions,
     score |-> item.score, accuracy |-> item.accuracy,
     attempt_no |-> item.attempt_no, details |-> details]

\* --------------------------------------------------------- revision_quiz
\* the limit a request may carry, as int(data.get("limit")) reads it
LimitValues == (0 - QuizLen)..(QuizLen + 1)
\* accuracy = correct / attempts if attempts > 0 else 0
Accuracy(correct, attempts) == IF attempts > 0 THEN <<correct, attempts>> ELSE <<0, 1>>
\* accuracy < 0.5, on the ratio <<numerator, denominator>>
LessThanHalf(accuracy) == 2 * accuracy[1] < accuracy[2]
\* variant: only never-solved questions need revision
NeedsRevision_OnlyUnsolved(stats) ==
    stats.attempts >= 1 /\ stats.correct = 0
NeedsRevision(stats) ==
    LET attempts == stats.attempts
        correct == stats.correct
        accuracy == Accuracy(correct, attempts)
    IN (attempts >= 1 /\ correct = 0) \/ (attempts >= 3 /\ LessThanHalf(accuracy))
\* for idx_str, stats in per_question.items(): ... revision_indices.append(idx)
Candidates(quiz, per_question) ==
    LET F[j \in 0..Len(per_question)] ==
            IF j = 0 THEN <<>>
            ELSE LET idx == Int_(per_question[j].key)
                 IN IF NeedsRevision(per_question[j]) /\ 0 <= idx /\ idx < Len(quiz)
                    THEN Append(F[j - 1], idx) ELSE F[j - 1]
    IN F[Len(per_question)]
\* variant: the candidate list is not truncated
Slice_Whole(s, limit) == s
\* the Python slice s[:limit]
Slice(s, limit) ==
    IF limit >= 0
    THEN SubSeq(s, 1, IF limit < Len(s) THEN limit ELSE Len(s))
    ELSE SubSeq(s, 1, IF Len(s) + limit > 0 THEN Len(s) + limit ELSE 0)
RevisionIndices(quiz, quiz_stats, limit) ==
    Slice(Candidates(quiz, quiz_stats.per_question), limit)

\* ----------------------------------------------------------------- store
\* A jsonb column returns the keys of an object ordered by length and then
\* bytewise (digit order for one-digit keys); a json column returns the text
\* that was written, keys in the order they were inserted.
ColumnTypes == {"json", "jsonb"}
SortedByKey(d) ==
    LET rank(j) == Cardinality({k \in 1..Len(d) : Int_(d[k].key) < Int_(d[j].key)}) + 1
    IN [p \in 1..Len(d) |-> d[CHOOSE j \in 1..Len(d) : rank(j) = p]]
Stored(column, quiz_stats) ==
    IF column = "jsonb"
    THEN [quiz_stats EXCEPT !.per_question = SortedByKey(quiz_stats.per_question)]
    ELSE quiz_stats

\* ------------------------------------------------- replies and new rows
\* "quiz_stats": {"history": [], "per_question": {}, "last_unsolved": []}
NewMaterialStats == [history |-> <<>>, per_question |-> <<>>, last_unsolved |-> <<>>]
NoLocal == [sm |-> NewMaterialStats, mode |-> None, details |-> <<>>,
            quiz_stats |-> NewMaterialStats, item |-> <<>>]
NoResponse == [handler |-> None, status |-> 0, limit |-> 0,
               revision_indices |-> <<>>, attempt |-> <<>>]
Reply(handler, status) == [NoResponse EXCEPT !.handler = handler, !.status = status]
\* the fields of the three dashboard replies; summary is the set of
\* <<key, value>> entries of the reply's summary object
NoDashboard == [handler |-> None, status |-> 0, summary |-> {}, materials |-> <<>>,
                attempts |-> <<>>, by_date |-> <<>>, quiz_history |-> <<>>,
                per_question |-> <<>>, last_unsolved |-> <<>>]

\* quiz_performance from the request to the update call: what the handler
\* holds once the attempt is scored on the quiz_stats it loaded
Scored(quiz, quiz_stats, m, raw_indices, answers) ==
    LET mode == LowerMode(m)
        n_quiz == Len(quiz)
        attempt_indices == AttemptIndices(mode, raw_indices, n_quiz)
        ev == Evaluate(quiz, quiz_stats, attempt_indices, answers)
        total_questions == Len(attempt_indices)
        item == Item(mode, ev, total_questions, AttemptNo(quiz_stats.history))
    IN [attempt_indices |-> attempt_indices,
        sm |-> quiz_stats, mode |-> mode, details |-> ev.details,
        quiz_stats |-> NewQuizStats(quiz, quiz_stats, ev, item),
        item |-> <<item>>]

\* ------------------------------------------------ materials with history
\* revision_quiz writes nothing: it is applied to the materials that
\* quiz_performance requests, served one at a time from a new material,
\* leave behind.  A practice plan lists questions in the order they are
\* first attempted, each with how often it was answered right, skipped and
\* answered wrong; the plan is served as one-question revision attempts.
Indices == 0..(QuizLen - 1)
Tallies ==
    {t \in [right : 0..MaxAttemptsPerQuestion, skip : 0..MaxAttemptsPerQuestion,
            wrong : 0..MaxAttemptsPerQuestion] :
        t.right + t.skip + t.wrong \in 1..MaxAttemptsPerQuestion}
Plans ==
    {p \in UNION {[1..k -> [index : Indices, tally : Tallies]] : k \in 0..QuizLen} :
        \A i, j \in 1..Len(p) : i # j => p[i].index # p[j].index}
WrongOption(quiz, idx) == CHOOSE o \in Options : o # quiz[idx + 1].answer
\* one request: mode "Revision", question_indices [idx], one answer or none
OneQuestion(idx, selected) ==
    [m |-> "Revision",
     raw_indices |-> [kind |-> "list", items |-> <<idx>>],
     answers |-> [k \in AnswerKeys |-> IF k = Str(idx) THEN selected ELSE None]]
Repeat(x, n) == [j \in 1..n |-> x]
PlanRequests(quiz, p) ==
    LET of(e) == Repeat(OneQuestion(e.index, quiz[e.index + 1].answer), e.tally.right)
                 \o Repeat(OneQuestion(e.index, None), e.tally.skip)
                 \o Repeat(OneQuestion(e.index, WrongOption(quiz, e.index)), e.tally.wrong)
        F[j \in 0..Len(p)] == IF j = 0 THEN <<>> ELSE F[j - 1] \o of(p[j])
    IN F[Len(p)]
\* the store and the response after one whole quiz_performance request
Served(column, quiz, st, req) ==
    LET sc == Scored(quiz, st.study_materials, req.m, req.raw_indices, req.answers)
    IN IF sc.attempt_indices = <<>>
       THEN [st EXCEPT !.response = Reply("quiz_performance", 400)]
       ELSE [study_materials |-> Stored(column, sc.quiz_stats),
             quiz_performance |->
                 Append(st.quiz_performance, QpRow(sc.item[1], sc.details)),
             response |-> [Reply("quiz_performance", 200) EXCEPT !.attempt = sc.item]]
RECURSIVE ServedAll(_, _, _, _)
ServedAll(column, quiz, st, reqs) ==
    IF reqs = <<>> THEN st
    ELSE ServedAll(column, quiz, Served(column, quiz, st, Head(reqs)), Tail(reqs))
NewMaterial == [study_materials |-> NewMaterialStats, quiz_performance |-> <<>>,
                response |-> NoResponse]

\* ------------------------------------------------------------ dashboards
\* The three dashboard handlers read the rows of one user.  The user has the
\* material of the other specifications, "m1", and a second one with the
\* same quiz; study_materials stays the quiz_stats of "m1".  A row carries
\* the material_id the handler wrote and created_at, which the store fills
\* in: here the number of the insert, AttemptsPerDay inserts falling on one
\* calendar day.
MaterialIds == {"m1", "m2"}
DbRow(material_id, created_at, row) ==
    [material_id |-> material_id, created_at |-> created_at,
     correct_answers |-> row.correct_answers, wrong_answers |-> row.wrong_answers,
     skipped |-> row.skipped, total_questions |-> row.total_questions,
     score |-> row.score, accuracy |-> row.accuracy,
     attempt_no |-> row.attempt_no, details |-> row.details]
\* created_at[:10]
DateKey(created_at) == (created_at - 1) \div AttemptsPerDay

\* Python floats are kept as ratios <<numerator, denominator>>
\* c / total_q if total_q > 0 else 0
Ratio(num, den) == IF den > 0 THEN <<num, den>> ELSE <<0, 1>>
Plus(a, b) == <<a[1] * b[2] + b[1] * a[2], a[2] * b[2]>>
Over(a, n) == <<a[1], a[2] * n>>
Percent(a) == <<100 * a[1], a[2]>>
Greater(a, b) == a[1] * b[2] > b[1] * a[2]
\* max(best, acc)
Max(a, b) == IF Greater(b, a) THEN b ELSE a
\* sum(...) of a list of ratios, in list order
Sum(fs) ==
    LET F[j \in 0..Len(fs)] == IF j = 0 THEN <<0, 1>> ELSE Plus(F[j - 1], fs[j])
    IN F[Len(fs)]
\* round(a, ndigits), as the count of units of 10^-ndigits; a half goes to
\* the even neighbour
Round(a, ndigits) ==
    LET num == a[1] * 10^ndigits
        q == num \div a[2]
        rem == num % a[2]
    IN IF 2 * rem > a[2] THEN q + 1
       ELSE IF 2 * rem = a[2] /\ q % 2 = 1 THEN q + 1
       ELSE q
\* the elements of a set of numbers in ascending order
Sorted(S) ==
    [i \in 1..Cardinality(S) |->
        CHOOSE x \in S : Cardinality({y \in S : y < x}) = i - 1]
\* score = float(c) of every row, and acc of every row
Scores(rows) == [j \in 1..Len(rows) |-> <<rows[j].correct_answers, 1>>]
OfMaterial(rows, m_id) == SelectSeq(rows, LAMBDA row : row.material_id = m_id)

\* ---- dashboard_overview
\* one entry of materials_summary, as it is appended to materials; avg_acc
\* is kept for all_acc
MaterialSummary(rows, m_id) ==
    LET own == OfMaterial(rows, m_id)
        accuracies == [j \in 1..Len(own) |-> own[j].accuracy]
        avg_acc == IF accuracies # <<>>
                   THEN Over(Sum(accuracies), Len(accuracies)) ELSE <<0, 1>>
        last == CHOOSE t \in {own[j].created_at : j \in 1..Len(own)} :
                    \A j \in 1..Len(own) : own[j].created_at <= t
    IN [material_id |-> m_id, total_attempts |-> Len(own),
        avg_accuracy |-> Round(Percent(avg_acc), 2), last_attempt_at |-> last,
        avg_acc |-> avg_acc]
Overview(qp_rows) ==
    IF qp_rows = <<>>
    THEN [NoDashboard EXCEPT !.handler = "dashboard_overview", !.status = 200]
    ELSE LET ids == RemoveDuplicates([j \in 1..Len(qp_rows) |-> qp_rows[j].material_id])
             summaries == [j \in 1..Len(ids) |-> MaterialSummary(qp_rows, ids[j])]
             all_acc == [j \in 1..Len(summaries) |-> summaries[j].avg_acc]
         IN [NoDashboard EXCEPT
                !.handler = "dashboard_overview", !.status = 200,
                !.materials = [j \in 1..Len(summaries) |->
                    [material_id |-> summaries[j].material_id,
                     total_attempts |-> summaries[j].total_attempts,
                     avg_accuracy |-> summaries[j].avg_accuracy,
                     last_attempt_at |-> summaries[j].last_attempt_at]],
                !.summary =
                    {<<"total_materials", Len(summaries)>>,
                     <<"total_attempts", Len(qp_rows)>>,
                     <<"avg_accuracy",
                       Round(Percent(Over(Sum(all_acc), Len(all_acc))), 2)>>}]

\* ---- dashboard_material
\* .order("attempt_no"): rows of equal attempt_no stay in insert order
OrderByAttemptNo(rows) ==
    LET before(i, j) == \/ rows[i].attempt_no < rows[j].attempt_no
                        \/ rows[i].attempt_no = rows[j].attempt_no /\ i < j
        rank(j) == Cardinality({i \in 1..Len(rows) : before(i, j)}) + 1
    IN [p \in 1..Len(rows) |-> rows[CHOOSE j \in 1..Len(rows) : rank(j) = p]]
HistoryEntry(row) ==
    LET correct == row.correct_answers
        wrong == row.wrong_answers
        total_q == correct + wrong
        acc == Ratio(correct, total_q)
    IN [attempt_no |-> row.attempt_no, created_at |-> row.created_at,
        accuracy |-> Round(Percent(acc), 2), correct |-> correct, wrong |-> wrong,
        skipped |-> row.skipped, total_questions |-> total_q, mode |-> "quiz"]
MaterialDetail(rows, material_id, sm) ==
    LET qp_rows == OrderByAttemptNo(OfMaterial(rows, material_id))
    IN [NoDashboard EXCEPT
           !.handler = "dashboard_material", !.status = 200,
           !.quiz_history = [j \in 1..Len(qp_rows) |-> HistoryEntry(qp_rows[j])],
           !.per_question = sm.per_question,
           !.last_unsolved = sm.last_unsolved]

\* ---- user_dashboard
RowAccuracy(row) ==
    Ratio(row.correct_answers, row.correct_answers + row.wrong_answers)
Accuracies(rows) == [j \in 1..Len(rows) |-> RowAccuracy(rows[j])]
\* overall_correct / overall_total_q * 100 if overall_total_q else 0
OverallAccuracy(rows) ==
    LET overall_correct ==
            Sum(Scores(rows))[1]
        overall_total_q ==
            Sum([j \in 1..Len(rows) |->
                    <<rows[j].correct_answers + rows[j].wrong_answers, 1>>])[1]
    IN Percent(Ratio(overall_correct, overall_total_q))
\* variant: the average accuracy is the ratio of the sums, too
AvgAccuracy_RatioOfSums(rows) == OverallAccuracy(rows)
\* sum_accuracy_frac / total_attempts * 100
AvgAccuracy(rows) == Percent(Over(Sum(Accuracies(rows)), Len(rows)))
AvgScore(rows) == Over(Sum(Scores(rows)), Len(rows))
Best(fs) ==
    LET F[j \in 0..Len(fs)] == IF j = 0 THEN <<0, 1>> ELSE Max(F[j - 1], fs[j])
    IN F[Len(fs)]
AttemptOut(row) ==
    LET c == row.correct_answers
        w == row.wrong_answers
        total_q == c + w
    IN [attempt_no |-> row.attempt_no, material_id |-> row.material_id,
        created_at |-> row.created_at, score |-> c, total_questions |-> total_q,
        accuracy |-> Percent(Ratio(c, total_q)), correct |-> c, wrong |-> w,
        skipped |-> row.skipped]
ByDate(rows) ==
    LET dates == Sorted({DateKey(rows[j].created_at) : j \in 1..Len(rows)})
        on(date_key) == SelectSeq(rows, LAMBDA row : DateKey(row.created_at) = date_key)
    IN [i \in 1..Len(dates) |->
            [date |-> dates[i], attempts |-> Len(on(dates[i])),
             avg_score |-> AvgScore(on(dates[i])),
             avg_accuracy |-> AvgAccuracy(on(dates[i]))]]
UserSummary(rows) ==
    IF rows = <<>>
    THEN [NoDashboard EXCEPT
             !.handler = "user_dashboard", !.status = 200,
             !.summary = {<<"total_attempts", 0>>, <<"distinct_materials", 0>>,
                          <<"overall_accuracy", 0>>, <<"avg_score", 0>>,
                          <<"avg_accuracy", 0>>, <<"best_score", 0>>,
                          <<"best_accuracy", 0>>}]
    ELSE [NoDashboard EXCEPT
             !.handler = "user_dashboard", !.status = 200,
             !.summary =
                {<<"total_attempts", Len(rows)>>,
                 <<"distinct_materials",
                   Cardinality({rows[j].material_id : j \in 1..Len(rows)})>>,
                 <<"overall_accuracy", Round(OverallAccuracy(rows), 1)>>,
                 <<"avg_score", Round(AvgScore(rows), 2)>>,
                 <<"avg_accuracy", Round(AvgAccuracy(rows), 2)>>,
                 <<"best_score",
                   Round(Best(Scores(rows)), 2)>>,
                 <<"best_accuracy",
                   Round(Percent(Best(Accuracies(rows))), 1)>>},
             !.attempts = [j \in 1..Len(rows) |-> AttemptOut(rows[j])],
             !.by_date = ByDate(rows)]

\* ---- the rows the dashboards are asked about
\* whole-quiz attempts and one-question revision attempts of either material
DashboardBodies ==
    [m : {"normal"}, raw_indices : {[kind |-> "absent", items |-> <<>>]},
     answers : AnswerInputs]
        \cup {OneQuestion(0, selected) : selected \in Options \cup {None}}
Events == [material_id : MaterialIds, body : DashboardBodies]
EventLists == UNION {[1..k -> Events] : k \in 0..MaxRows}
\* the materials and the table after one more event, the j-th
ReplayStep(column, quiz, acc, event, j) ==
    CHOOSE out \in
        {[materials |-> [acc.materials EXCEPT ![event.material_id] = st],
          rows |-> Append(acc.rows,
                     DbRow(event.material_id, j,
                           st.quiz_performance[Len(st.quiz_performance)]))] :
            st \in {Served(column, quiz, acc.materials[event.material_id],
                           event.body)}} : TRUE
\* the materials and the table after the events, served one at a time
RECURSIVE ReplayedFrom(_, _, _, _)
ReplayedFrom(column, quiz, acc, events) ==
    IF Len(acc.rows) = Len(events) THEN acc
    ELSE CHOOSE out \in
            {ReplayedFrom(column, quiz, next, events) :
                next \in {ReplayStep(column, quiz, acc,
                                     events[Len(acc.rows) + 1], Len(acc.rows) + 1)}} :
            TRUE
Replayed(column, quiz, events) ==
    ReplayedFrom(column, quiz,
        [materials |-> [m_id \in MaterialIds |-> NewMaterial], rows |-> <<>>], events)

\* ----------------------------------------------------------------- state
VARIABLES
    quiz,              \* the quiz column of the material's row
    columnType,        \* type of the column study_materials.quiz_stats
    study_materials,   \* quiz_stats of the material's row
    quiz_performance,  \* rows of the table quiz_performance, in insert order
    pc,                \* per request slot: "idle", "loaded" or "updated"
    local,             \* per request slot: the handler's local variables
    response,          \* the last response a handler returned
    started,           \* /api/quiz_performance requests started so far
    requests,          \* quiz_performance request bodies sent and not served
                       \* yet, in arrival order (used by the specifications
                       \* that draw whole requests at the start)
    swapped,           \* the quiz_stats the material would hold had these
                       \* requests arrived in the opposite order
    dashboard          \* the last reply of a dashboard handler
vars == <<quiz, columnType, study_materials, quiz_performance, pc, local, response,
          started, requests, swapped, dashboard>>
\* what neither quiz_performance nor revision_quiz touches
untouched == <<quiz, columnType, requests, swapped, dashboard>>
\* n_quiz = len(quiz)
n_quiz == Len(quiz)

Init ==
    /\ quiz \in Quizzes
    /\ columnType \in ColumnTypes
    /\ study_materials = NewMaterialStats
    /\ quiz_performance = <<>>
    /\ pc = [r \in Requests |-> "idle"]
    /\ local = [r \in Requests |-> NoLocal]
    /\ response = NoResponse
    /\ started = 0
    /\ requests = <<>>
    /\ swapped = NewMaterialStats
    /\ dashboard = NoDashboard

\* Request slots are interchangeable: a request takes the first free one.
FreeSlot(r) == pc[r] = "idle" /\ \A q \in Requests : q < r => pc[q] # "idle"

Locals(sc) == [sm |-> sc.sm, mode |-> sc.mode, details |-> sc.details,
               quiz_stats |-> sc.quiz_stats, item |-> sc.item]

\* the select of the material and the scoring; no valid index ends the
\* request with 400 before anything is written
Load(r) ==
    /\ FreeSlot(r)
    /\ started < MaxRequests
    /\ started' = started + 1
    /\ \E m \in ModeInputs, raw_indices \in RawIndices, answers \in AnswerInputs :
        LET sc == Scored(quiz, study_materials, m, raw_indices, answers)
        IN IF sc.attempt_indices = <<>>
           THEN /\ response' = Reply("quiz_performance", 400)
                /\ UNCHANGED <<pc, local>>
           ELSE /\ pc' = [pc EXCEPT ![r] = "loaded"]
                /\ local' = [local EXCEPT ![r] = Locals(sc)]
                /\ UNCHANGED response
    /\ UNCHANGED <<untouched, study_materials, quiz_performance>>

\* supabase.table("study_materials").update({"quiz_stats": quiz_stats})
Update(r) ==
    /\ pc[r] = "loaded"
    /\ study_materials' = Stored(columnType, local[r].quiz_stats)
    /\ pc' = [pc EXCEPT ![r] = "updated"]
    /\ UNCHANGED <<untouched, quiz_performance, local, response, started>>

\* the update raises: the request ends with an error, nothing is written
UpdateFails(r) ==
    /\ pc[r] = "loaded"
    /\ pc' = [pc EXCEPT ![r] = "idle"]
    /\ local' = [local EXCEPT ![r] = NoLocal]
    /\ response' = Reply("quiz_performance", 500)
    /\ UNCHANGED <<untouched, study_materials, quiz_performance, started>>

\* supabase.table("quiz_performance").insert(qp_row), then the 200 response
Insert(r) ==
    /\ pc[r] = "updated"
    /\ quiz_performance' =
           Append(quiz_performance, QpRow(local[r].item[1], local[r].details))
    /\ response' = [Reply("quiz_performance", 200) EXCEPT !.attempt = local[r].item]
    /\ pc' = [pc EXCEPT ![r] = "idle"]
    /\ local' = [local EXCEPT ![r] = NoLocal]
    /\ UNCHANGED <<untouched, study_materials, started>>

\* the insert raises after quiz_stats was written
InsertFails(r) ==
    /\ pc[r] = "updated"
    /\ pc' = [pc EXCEPT ![r] = "idle"]
    /\ local' = [local EXCEPT ![r] = NoLocal]
    /\ response' = Reply("quiz_performance", 500)
    /\ UNCHANGED <<untouched, study_materials, quiz_performance, started>>

Next ==
    \/ \E r \in Requests : Load(r)
    \/ \E r \in Requests : Update(r)
    \/ \E r \in Requests : UpdateFails(r)
    \/ \E r \in Requests : Insert(r)
    \/ \E r \in Requests : InsertFails(r)

Spec == Init /\ [][Next]_vars


InitRevision ==
    /\ quiz = Questions(QuizLen)
    /\ requests = <<>>
    /\ swapped = NewMaterialStats
    /\ dashboard = NoDashboard
    /\ columnType \in ColumnTypes
    /\ \E p \in Plans :
        LET st == ServedAll(columnType, quiz, NewMaterial, PlanRequests(quiz, p))
        IN /\ study_materials = st.study_materials
           /\ quiz_performance = st.quiz_performance
           /\ response = st.response
           /\ started = Len(st.quiz_performance)
    /\ pc = [r \in Requests |-> "idle"]
    /\ local = [r \in Requests |-> NoLocal]

\* the revision_quiz handler, limit given or absent (10)
RevisionQuiz(limit) ==
    /\ response' = [Reply("revision_quiz", 200) EXCEPT
                       !.limit = limit,
                       !.revision_indices = RevisionIndices(quiz, study_materials, limit)]
    /\ UNCHANGED <<untouched, study_materials, quiz_performance, pc, local, started>>

NextRevision == \E limit \in LimitValues \cup {DefaultLimit} : RevisionQuiz(limit)

SpecRevision == InitRevision /\ [][NextRevision]_vars

\* ------------------------------------------- one request on a material
\* One quiz_performance request, drawn whole at the start, is served on a
\* material that earlier requests, served one at a time, left behind.  The
\* material has the generated quiz or no question; each question was
\* attempted at most MaxPriorAttempts times before.
PriorPlans ==
    {p \in Plans : \A j \in 1..Len(p) :
        p[j].tally.right + p[j].tally.skip + p[j].tally.wrong <= MaxPriorAttempts}
LongRawIndices ==
    {[kind |-> "absent", items |-> <<>>], [kind |-> "scalar", items |-> <<>>]}
        \cup {[kind |-> "list", items |-> l] :
                l \in UNION {[1..k -> RawValues] : k \in 0..MaxLongRawLen}}
RequestBodies ==
    [m : ModeInputs, raw_indices : LongRawIndices, answers : AnswerInputs]
\* the material a plan leaves behind
InitMaterial(plans) ==
    /\ quiz \in Quizzes
    /\ columnType \in ColumnTypes
    /\ \E p \in plans :
        /\ quiz = <<>> => p = <<>>
        /\ LET st == ServedAll(columnType, quiz, NewMaterial, PlanRequests(quiz, p))
           IN /\ study_materials = st.study_materials
              /\ quiz_performance = st.quiz_performance
              /\ started = Len(st.quiz_performance)
    /\ pc = [r \in Requests |-> "idle"]
    /\ local = [r \in Requests |-> NoLocal]
    /\ response = NoResponse
    /\ dashboard = NoDashboard

InitRequest ==
    /\ InitMaterial(PriorPlans)
    /\ requests \in {<<body>> : body \in RequestBodies}
    /\ swapped = NewMaterialStats

\* the store as the replay of requests reads and writes it
Store == [study_materials |-> study_materials, quiz_performance |-> quiz_performance,
          response |-> response]
\* the whole handler on the request that was drawn
Serve ==
    /\ response = NoResponse
    /\ LET st == Served(columnType, quiz, Store, requests[1])
       IN /\ study_materials' = st.study_materials
          /\ quiz_performance' = st.quiz_performance
          /\ response' = st.response
    /\ started' = started + 1
    /\ UNCHANGED <<untouched, pc, local>>

NextRequest == Serve

SpecRequest == InitRequest /\ [][NextRequest]_vars

\* ---------------------------------------------- two requests, two orders
\* Two scored attempts, drawn whole at the start, are served one after the
\* other on such a material; swapped is the quiz_stats the same material
\* holds when the second is served before the first.
\* the lists of valid indices without repetition
InRangeLists ==
    {l \in UNION {[1..k -> Indices] : k \in 1..MaxRawLen} :
        \A i, j \in 1..Len(l) : i # j => l[i] # l[j]}
AttemptBodies ==
    [m : {"normal"}, raw_indices : {[kind |-> "absent", items |-> <<>>]},
     answers : AnswerInputs]
        \cup [m : {"Revision"},
              raw_indices : {[kind |-> "list", items |-> l] : l \in InRangeLists},
              answers : AnswerInputs]
InitSwap ==
    /\ InitMaterial(PriorPlans)
    /\ requests \in {<<a, b>> : a \in AttemptBodies, b \in AttemptBodies}
    /\ swapped = study_materials

\* both handlers, one after the other
ServeBoth ==
    /\ response = NoResponse
    /\ \E st \in {ServedAll(columnType, quiz, Store, requests)},
          sw \in {ServedAll(columnType, quiz, Store, <<requests[2], requests[1]>>)} :
          /\ study_materials' = st.study_materials
          /\ quiz_performance' = st.quiz_performance
          /\ response' = st.response
          /\ swapped' = sw.study_materials
    /\ started' = started + Len(requests)
    /\ UNCHANGED <<quiz, columnType, requests, dashboard, pc, local>>

NextSwap == ServeBoth

SpecSwap == InitSwap /\ [][NextSwap]_vars

\* ------------------------------------------------- dashboard requests
InitDashboard ==
    /\ quiz = Questions(QuizLen)
    /\ columnType \in ColumnTypes
    /\ \E events \in EventLists :
        \E after \in {Replayed(columnType, quiz, events)} :
           /\ study_materials = after.materials["m1"].study_materials
           /\ quiz_performance = after.rows
           /\ started = Len(after.rows)
    /\ pc = [r \in Requests |-> "idle"]
    /\ local = [r \in Requests |-> NoLocal]
    /\ response = NoResponse
    /\ requests = <<>>
    /\ swapped = NewMaterialStats
    /\ dashboard = NoDashboard

stored == <<quiz, columnType, study_materials, quiz_performance, pc, local, response,
            started, requests, swapped>>
DashboardOverview ==
    /\ dashboard' = Overview(quiz_performance)
    /\ UNCHANGED stored
DashboardMaterial ==
    /\ dashboard' = MaterialDetail(quiz_performance, "m1", study_materials)
    /\ UNCHANGED stored
UserDashboard ==
    /\ dashboard' = UserSummary(quiz_performance)
    /\ UNCHANGED stored

NextDashboard ==
    \/ DashboardOverview
    \/ DashboardMaterial
    \/ UserDashboard

SpecDashboard == InitDashboard /\ [][NextDashboard]_vars

\* ================================================================ claims
\* the requests that hold a scored attempt
InFlight == {r \in Requests : pc[r] # "idle"}
\* the persisted counters of question idx (all zero when it has no entry)
Persisted(idx) == GetStats(study_materials.per_question, Str(idx))
SumsToTotal(rec) == rec.correct + rec.wrong + rec.skipped = rec.total_questions

\* C1: the counts of every scored attempt add up: correct + wrong + skipped
\* equals total_questions, the number of indices that were scored (one
\* detail entry each); so for the attempt a request holds, for every history
\* record and for every quiz_performance row.
C1_CountsSumToTotal ==
    /\ \A r \in InFlight :
        /\ SumsToTotal(local[r].item[1])
        /\ local[r].item[1].total_questions = Len(local[r].details)
    /\ \A j \in 1..Len(study_materials.history) :
        SumsToTotal(study_materials.history[j])
    /\ \A j \in 1..Len(quiz_performance) :
        /\ quiz_performance[j].correct_answers + quiz_performance[j].wrong_answers
             + quiz_performance[j].skipped = quiz_performance[j].total_questions
        /\ quiz_performance[j].total_questions = Len(quiz_performance[j].details)
\* a persisted two-question attempt with one wrong answer and one skip
C1_Witness ==
    \E j \in 1..Len(study_materials.history) :
        /\ study_materials.history[j].wrong = 1
        /\ study_materials.history[j].skipped = 1
        /\ study_materials.history[j].total_questions = 2

\* how often index idx occurs in the detail list of an attempt
Occurrences(details, idx) ==
    Cardinality({j \in 1..Len(details) : details[j].index = idx})
DetailOf(details, idx) ==
    details[CHOOSE j \in 1..Len(details) : details[j].index = idx]
\* C2: the per-question stats a request writes differ from the stats it
\* loaded exactly by its attempt: an attempted index gains 1 attempt, 1
\* skipped iff no answer was submitted, 1 correct iff the submitted answer
\* is the question's answer (a wrong answer only gains the attempt); an
\* index outside the attempt keeps its stats.
C2_FoldChangesExactly ==
    \A r \in InFlight : \A idx \in Indices :
        LET old == GetStats(local[r].sm.per_question, Str(idx))
            new == GetStats(local[r].quiz_stats.per_question, Str(idx))
            n == Occurrences(local[r].details, idx)
        IN IF n = 0 THEN new = old
           ELSE LET selected == DetailOf(local[r].details, idx).selected_answer
                    isSkip == selected = None
                    isRight == selected = quiz[idx + 1].answer
                IN /\ new.attempts = old.attempts + 1
                   /\ new.skipped = old.skipped + (IF isSkip THEN 1 ELSE 0)
                   /\ new.correct = old.correct + (IF isRight THEN 1 ELSE 0)
\* a request holding a one-question attempt answered wrong, loaded from a
\* material whose other question already has stats
C2_Witness ==
    \E r \in InFlight :
        /\ Len(local[r].details) = 1
        /\ local[r].details[1].selected_answer # None
        /\ ~local[r].details[1].is_correct
        /\ \E idx \in Indices :
            /\ idx # local[r].details[1].index
            /\ HasKey(local[r].sm.per_question, Str(idx))

\* C3: from one persisted state to the next no persisted counter of any
\* question decreases.
C3_StatsNeverDecrease ==
    [][\A idx \in Indices :
          LET old == Persisted(idx)
              new == GetStats(study_materials'.per_question, Str(idx))
          IN /\ new.attempts >= old.attempts
             /\ new.correct >= old.correct
             /\ new.skipped >= old.skipped]_vars

WellFormedStats(e) ==
    /\ e.attempts >= 0 /\ e.correct >= 0 /\ e.skipped >= 0
    /\ e.correct + e.skipped <= e.attempts
    /\ e.correct <= e.attempts
\* C4: from a new material on, every per-question entry that is stored or
\* about to be stored has counters >= 0 with correct + skipped <= attempts.
C4_StatsWellFormed ==
    /\ \A j \in 1..Len(study_materials.per_question) :
        WellFormedStats(study_materials.per_question[j])
    /\ \A r \in InFlight : \A j \in 1..Len(local[r].quiz_stats.per_question) :
        WellFormedStats(local[r].quiz_stats.per_question[j])
\* a stored entry whose attempts are all accounted for by one correct answer
\* and one skip
C4_Witness ==
    \E j \in 1..Len(study_materials.per_question) :
        LET e == study_materials.per_question[j]
        IN e.attempts = 2 /\ e.correct = 1 /\ e.skipped = 1

\* C5: the persisted last_unsolved lists exactly the questions of the whole
\* quiz that were attempted and never answered right, once each, ascending.
C5_LastUnsolvedExact ==
    LET lu == study_materials.last_unsolved
    IN /\ \A j, k \in 1..Len(lu) : j < k => lu[j].index < lu[k].index
       /\ {lu[j].index : j \in 1..Len(lu)} =
            {idx \in Indices : Persisted(idx).attempts > 0 /\ Persisted(idx).correct = 0}
\* after a second attempt on one question only, both questions are unsolved
C5_Witness ==
    /\ Len(study_materials.history) = 2
    /\ study_materials.history[2].total_questions = 1
    /\ Len(study_materials.last_unsolved) = 2

\* C6: a request appends exactly one record to the history it loaded,
\* numbered with that history's length plus 1, and the persisted history is
\* numbered 1, 2, ..., n in position order.
C6_HistoryNumbered ==
    /\ \A j \in 1..Len(study_materials.history) :
        study_materials.history[j].attempt_no = j
    /\ \A r \in InFlight :
        /\ local[r].quiz_stats.history =
               Append(local[r].sm.history, local[r].item[1])
        /\ local[r].item[1].attempt_no = Len(local[r].sm.history) + 1
\* two records are persisted
C6_Witness ==
    /\ Len(study_materials.history) = 2
    /\ study_materials.history[2].attempt_no = 2

\* C7: whatever the interleaving, a persisted history record stays in place
\* unchanged in every later persisted state, and no persisted per-question
\* entry written by a request is discarded by another request's write.
C7_NothingPersistedIsLost ==
    [][/\ \A j \in 1..Len(study_materials.history) :
            /\ j <= Len(study_materials'.history)
            /\ study_materials'.history[j] = study_materials.history[j]
       /\ \A idx \in Indices :
            HasKey(study_materials.per_question, Str(idx))
                => /\ HasKey(study_materials'.per_question, Str(idx))
                   /\ GetStats(study_materials'.per_question, Str(idx)).attempts
                        >= Persisted(idx).attempts]_vars

\* ------------------------------------------------- revision_quiz claims
IsRevisionResponse == response.handler = "revision_quiz"
Returned == response.revision_indices
ReturnedSet == {Returned[j] : j \in 1..Len(Returned)}
\* the qualifying predicate, on the persisted counters of a question
Qualifies(idx) ==
    \/ Persisted(idx).attempts >= 1 /\ Persisted(idx).correct = 0
    \/ Persisted(idx).attempts >= 3 /\ 2 * Persisted(idx).correct < Persisted(idx).attempts
QualifyingSet == {idx \in Indices : Qualifies(idx)}

\* C8 as stated: whatever integer the limit is, at most limit indices are
\* returned.
C8_AtMostLimit ==
    IsRevisionResponse => Len(Returned) <= response.limit
\* C8 amended: with a limit >= 0 at most limit indices are returned; a
\* negative limit is not rejected: as a slice bound it drops that many
\* indices from the end of the candidate list.
C8_AtMostNonNegativeLimit ==
    IsRevisionResponse =>
        /\ response.limit >= 0 => Len(Returned) <= response.limit
        /\ response.limit < 0 =>
            Len(Returned) =
                (IF Cardinality(QualifyingSet) + response.limit > 0
                 THEN Cardinality(QualifyingSet) + response.limit ELSE 0)
\* two questions qualify and limit 1 cut the answer to one index
C8_Witness ==
    /\ IsRevisionResponse
    /\ response.limit = 1
    /\ Len(Returned) = 1
    /\ Cardinality(QualifyingSet) = 2

\* C9: every returned index is a question of the quiz and qualifies; when
\* no more than limit questions qualify, the returned indices are exactly
\* the qualifying ones, every index of last_unsolved among them (and none
\* when nothing qualifies).
C9_ReturnedQualify ==
    IsRevisionResponse =>
        /\ \A j \in 1..Len(Returned) :
            /\ 0 <= Returned[j] /\ Returned[j] < Len(quiz)
            /\ Qualifies(Returned[j])
        /\ Cardinality(QualifyingSet) <= response.limit =>
            /\ ReturnedSet = QualifyingSet
            /\ Len(Returned) = Cardinality(QualifyingSet)
            /\ \A j \in 1..Len(study_materials.last_unsolved) :
                study_materials.last_unsolved[j].index \in ReturnedSet
\* a question with 4 attempts and 1 correct answer is returned together
\* with a question of last_unsolved
C9_Witness ==
    /\ IsRevisionResponse
    /\ \E idx \in ReturnedSet :
        Persisted(idx).attempts = 4 /\ Persisted(idx).correct = 1
    /\ \E j \in 1..Len(study_materials.last_unsolved) :
        study_materials.last_unsolved[j].index \in ReturnedSet

\* C10: the returned indices are strictly ascending, and when more than
\* limit questions qualify they are the limit smallest qualifying indices.
C10_AscendingSmallest ==
    IsRevisionResponse =>
        /\ \A j, k \in 1..Len(Returned) : j < k => Returned[j] < Returned[k]
        /\ (response.limit >= 0 /\ Cardinality(QualifyingSet) > response.limit) =>
            ReturnedSet =
                {idx \in QualifyingSet :
                    Cardinality({o \in QualifyingSet : o < idx}) < response.limit}

\* ------------------------------------------- claims on one drawn request
\* the request that was drawn, and whether it was answered
TheRequest == requests[1]
Answered == response.handler = "quiz_performance"
\* the request asks for a revision over a caller-supplied list
SuppliesList(req) ==
    /\ LowerMode(req.m) = "revision"
    /\ req.raw_indices.kind = "list"
    /\ req.raw_indices.items # <<>>
\* no index is left to score: every supplied index is out of range, or the
\* quiz has no question
NothingToScore(req) ==
    \/ Len(quiz) = 0
    \/ /\ SuppliesList(req)
       /\ \A j \in 1..Len(req.raw_indices.items) :
            req.raw_indices.items[j] < 0 \/ req.raw_indices.items[j] >= Len(quiz)

\* C11: a request that leaves no index to score (a revision request whose
\* supplied indices are all out of range, or any request on a quiz with no
\* question) is answered with the error status 400, and its step leaves the
\* per-question stats, last_unsolved, the history and the rows of
\* quiz_performance as they were.
C11_NothingToScoreChangesNothing ==
    [][(response = NoResponse /\ response' # NoResponse /\ NothingToScore(TheRequest))
        => /\ response' = Reply("quiz_performance", 400)
           /\ study_materials' = study_materials
           /\ quiz_performance' = quiz_performance]_vars
\* a revision request with only out-of-range indices was refused on a
\* material that has history
C11_Witness ==
    /\ Answered /\ response.status = 400
    /\ SuppliesList(TheRequest) /\ NothingToScore(TheRequest)
    /\ Len(quiz) > 0
    /\ study_materials.history # <<>>
    /\ quiz_performance # <<>>
\* a request on a quiz with no question was refused
C11_RefusedWithoutQuestions ==
    Answered /\ response.status = 400 /\ Len(quiz) = 0 /\ ~SuppliesList(TheRequest)

\* the history record the answered request appended
Recorded == study_materials.history[Len(study_materials.history)]

\* C12: a request with mode "revision" and no usable question_indices (absent,
\* not a list, or an empty list) scores the whole quiz and is recorded with
\* mode "normal"; every history record has mode "normal" or "revision", and
\* the record of a request has mode "revision" only when the request was
\* scored over a list the caller supplied.
C12_FallbackRecordedNormal ==
    (Answered /\ response.status = 200) =>
        /\ (LowerMode(TheRequest.m) = "revision" /\ ~SuppliesList(TheRequest))
            => (Recorded.total_questions = Len(quiz) /\ Recorded.mode = "normal")
        /\ \A j \in 1..Len(study_materials.history) :
            study_materials.history[j].mode \in {"normal", "revision"}
        /\ Recorded.mode = "revision" => SuppliesList(TheRequest)

\* the positions of a supplied list that are scored: in range, and no
\* earlier position holds the same index
ScoredPositions(items) ==
    {j \in 1..Len(items) :
        /\ 0 <= items[j] /\ items[j] < Len(quiz)
        /\ \A k \in 1..(j - 1) : items[k] # items[j]}
\* the indices at these positions, in the order of the list
ExpectedIndices(items) ==
    LET kept == ScoredPositions(items)
        nth(i) == CHOOSE j \in kept : Cardinality({k \in kept : k < j}) = i - 1
    IN [i \in 1..Cardinality(kept) |-> items[nth(i)]]
TheItems == TheRequest.raw_indices.items

\* C13: a revision attempt over a supplied list scores the list with the
\* out-of-range indices dropped and of equal indices only the first kept:
\* the details of the inserted row have one entry per such index, in that
\* order, total_questions counts them, and the attempts counter of a
\* question grows by one when it is among them and not at all otherwise.
C13_ScoredOnceInListOrder ==
    [][(response = NoResponse /\ response'.status = 200 /\ SuppliesList(TheRequest))
        => LET expected == ExpectedIndices(TheItems)
               row == quiz_performance'[Len(quiz_performance')]
           IN /\ Len(quiz_performance') = Len(quiz_performance) + 1
              /\ Len(row.details) = Len(expected)
              /\ \A j \in 1..Len(expected) : row.details[j].index = expected[j]
              /\ row.total_questions = Len(expected)
              /\ \A idx \in Indices :
                    GetStats(study_materials'.per_question, Str(idx)).attempts
                    = GetStats(study_materials.per_question, Str(idx)).attempts
                      + (IF \E j \in 1..Len(expected) : expected[j] = idx
                         THEN 1 ELSE 0)]_vars
\* a list that repeats its first index after another one was scored on a
\* material that has history
C13_Witness ==
    /\ Answered /\ response.status = 200 /\ SuppliesList(TheRequest)
    /\ Len(TheItems) = 3
    /\ TheItems[1] = TheItems[3] /\ TheItems[1] # TheItems[2]
    /\ Len(quiz_performance[Len(quiz_performance)].details) = 2
    /\ Len(study_materials.history) > 1

\* -------------------------------------------- claims on two drawn requests
\* attempts, correct and skipped of every question, whatever the key order
CountersOf(quiz_stats) ==
    [idx \in Indices |->
        LET e == GetStats(quiz_stats.per_question, Str(idx))
        IN [attempts |-> e.attempts, correct |-> e.correct, skipped |-> e.skipped]]
\* the details of the row with attempt_no n
RowDetails(n) == quiz_performance[CHOOSE j \in 1..Len(quiz_performance) :
                                    quiz_performance[j].attempt_no = n].details

\* C14: two attempts served in either order from the same quiz_stats leave
\* the same attempts, correct and skipped for every question and the same
\* last_unsolved list.
C14_OrderDoesNotMatter ==
    /\ CountersOf(study_materials) = CountersOf(swapped)
    /\ study_materials.last_unsolved = swapped.last_unsolved
\* both attempts scored one question, one solved it and the other did not,
\* on a material that has history; the two orders wrote different histories
C14_Witness ==
    /\ Len(study_materials.history) >= 3
    /\ Len(quiz_performance) = Len(study_materials.history)
    /\ study_materials.history # swapped.history
    /\ LET n == Len(study_materials.history)
       IN \E i \in 1..Len(RowDetails(n - 1)), j \in 1..Len(RowDetails(n)) :
            /\ RowDetails(n - 1)[i].index = RowDetails(n)[j].index
            /\ RowDetails(n - 1)[i].is_correct # RowDetails(n)[j].is_correct

\* ------------------------------------------------------ dashboard claims
\* the value of a field of the reply's summary object
HasField(key) == \E e \in dashboard.summary : e[1] = key
Field(key) == (CHOOSE e \in dashboard.summary : e[1] = key)[2]
\* value, a count of units of 1/scale, is the one nearest to num/den
Nearest(value, num, den, scale) ==
    LET d == value * den - scale * num
    IN (IF d < 0 THEN 0 - d ELSE d) * 2 <= den
\* the denominator correct + wrong of a row, and a row's share of a common
\* denominator
Answered_(row) == row.correct_answers + row.wrong_answers
Total(ns) ==
    LET F[j \in 0..Len(ns)] == IF j = 0 THEN 0 ELSE F[j - 1] + ns[j]
    IN F[Len(ns)]
Product(ns) ==
    LET F[j \in 0..Len(ns)] == IF j = 0 THEN 1 ELSE F[j - 1] * ns[j]
    IN F[Len(ns)]
\* the sum of correct/(correct + wrong) over rows, a row with denominator
\* zero adding nothing, as <<numerator, denominator>>
SumOfRatios(rows) ==
    LET dens == [j \in 1..Len(rows) |->
                    IF Answered_(rows[j]) = 0 THEN 1 ELSE Answered_(rows[j])]
        D == Product(dens)
    IN <<Total([j \in 1..Len(rows) |-> rows[j].correct_answers * (D \div dens[j])]), D>>

\* C15: user_dashboard reports overall_accuracy as the ratio of the sums,
\* sum(correct) / sum(correct + wrong), 0 when the denominator is 0, and
\* avg_accuracy as the mean over all rows of correct / (correct + wrong),
\* a row with denominator 0 counting as 0 (both as percentages, rounded to
\* one and to two decimals).
C15_RatioOfSumsAndMeanOfRatios ==
    dashboard.handler = "user_dashboard" =>
        LET rows == quiz_performance
            correct == Total([j \in 1..Len(rows) |-> rows[j].correct_answers])
            answered == Total([j \in 1..Len(rows) |-> Answered_(rows[j])])
            ratios == SumOfRatios(rows)
        IN /\ HasField("overall_accuracy") /\ HasField("avg_accuracy")
           /\ IF answered = 0 THEN Field("overall_accuracy") = 0
              ELSE Nearest(Field("overall_accuracy"), 100 * correct, answered, 10)
           /\ IF rows = <<>> THEN Field("avg_accuracy") = 0
              ELSE Nearest(Field("avg_accuracy"), 100 * ratios[1],
                           ratios[2] * Len(rows), 100)
\* the two figures differ by more than a percent on rows of which one has
\* denominator zero
C15_Witness ==
    /\ dashboard.handler = "user_dashboard"
    /\ \E j \in 1..Len(quiz_performance) : Answered_(quiz_performance[j]) = 0
    /\ \E j \in 1..Len(quiz_performance) : Answered_(quiz_performance[j]) > 0
    /\ 10 * Field("overall_accuracy") - Field("avg_accuracy") > 100

\* C16: dashboard_overview reports for each material the mean of
\* correct / (correct + wrong) over its attempts with correct + wrong > 0
\* only: an attempt with denominator zero is left out of the sum and of the
\* count, and skipped questions are not in the denominator.
C16_MeanOverAnsweredAttempts ==
    (dashboard.handler = "dashboard_overview" /\ dashboard.status = 200) =>
        \A i \in 1..Len(dashboard.materials) :
            LET entry == dashboard.materials[i]
                counted == SelectSeq(OfMaterial(quiz_performance, entry.material_id),
                                     LAMBDA row : Answered_(row) > 0)
                ratios == SumOfRatios(counted)
            IN IF counted = <<>> THEN entry.avg_accuracy = 0
               ELSE Nearest(entry.avg_accuracy, 100 * ratios[1],
                            ratios[2] * Len(counted), 100)

\* the fields of the summary object of each dashboard
SummaryFields(handler) ==
    IF handler = "dashboard_overview"
    THEN {"total_materials", "total_attempts", "avg_accuracy"}
    ELSE IF handler = "user_dashboard"
    THEN {"total_attempts", "distinct_materials", "overall_accuracy", "avg_score",
          "avg_accuracy", "best_score", "best_accuracy"}
    ELSE {}
\* the dashboard was asked about a user, or a material, without rows
NoRowsToReport ==
    /\ dashboard.handler # None
    /\ IF dashboard.handler = "dashboard_material"
       THEN OfMaterial(quiz_performance, "m1") = <<>>
       ELSE quiz_performance = <<>>

\* C17: a dashboard asked about a user or a material without attempt rows
\* replies with success, every field of its summary present with value
\* zero and every list empty.
C17_EmptyGivesZeroSummary ==
    NoRowsToReport =>
        /\ dashboard.status = 200
        /\ \A key \in SummaryFields(dashboard.handler) : <<key, 0>> \in dashboard.summary
        /\ dashboard.materials = <<>> /\ dashboard.attempts = <<>>
        /\ dashboard.by_date = <<>> /\ dashboard.quiz_history = <<>>
\* no dashboard request changes what is stored
C17_DashboardsWriteNothing ==
    [][dashboard' # dashboard =>
        (study_materials' = study_materials /\ quiz_performance' = quiz_performance)]_vars

\* ------------------------------------------ per-question stats and history
PerQuestion == study_materials.per_question
History == study_materials.history

\* C18: the per-question counters and the history agree: over all questions
\* attempts add up to the total_questions of all history records, correct to
\* their correct and skipped to their skipped.
C18_StatsMatchHistory ==
    /\ Total([j \in 1..Len(PerQuestion) |-> PerQuestion[j].attempts])
       = Total([j \in 1..Len(History) |-> History[j].total_questions])
    /\ Total([j \in 1..Len(PerQuestion) |-> PerQuestion[j].correct])
       = Total([j \in 1..Len(History) |-> History[j].correct])
    /\ Total([j \in 1..Len(PerQuestion) |-> PerQuestion[j].skipped])
       = Total([j \in 1..Len(History) |-> History[j].skipped])
\* two attempts are recorded, one of them over a single question, with
\* right, wrong and skipped answers among them
C18_Witness ==
    /\ Len(History) = 2
    /\ \E j \in 1..2 : History[j].total_questions = 1
    /\ \E j \in 1..2 : History[j].correct > 0
    /\ \E j \in 1..2 : History[j].wrong > 0
    /\ \E j \in 1..2 : History[j].skipped > 0

\* C19: once no request is between its two writes, the rows of
\* quiz_performance and the history correspond: the attempt_no values of
\* the rows are exactly 1..len(history), each on one row, and a row has the
\* correct, wrong and skipped counts of the history record of its number.
C19_RowsMatchHistory ==
    InFlight = {} =>
        /\ \A n \in 1..Len(History) :
            Cardinality({j \in 1..Len(quiz_performance) :
                            quiz_performance[j].attempt_no = n}) = 1
        /\ \A j \in 1..Len(quiz_performance) :
            LET row == quiz_performance[j]
            IN /\ row.attempt_no \in 1..Len(History)
               /\ row.correct_answers = History[row.attempt_no].correct
               /\ row.wrong_answers = History[row.attempt_no].wrong
               /\ row.skipped = History[row.attempt_no].skipped

====

